---- MODULE Spec2Model ----
(***************************************************************************)
(* Model of robotis_op::BallTracker (op3_demo/src/soccer/ball_tracker.cpp). *)
(*                                                                         *)
(* Angles are fixed-point numbers in tenths of a degree, image coordinates *)
(* in hundredths, time in periods of 0.04 s.  A C++ double that can be     *)
(* non-finite (the PD terms, which divide by the elapsed time) is a record *)
(* [k, v] with k in {"fin", "inf", "nan"}.                                 *)
(***************************************************************************)
EXTENDS Integers, Sequences, FiniteSets, TLC

VARIABLES
  on_tracking_,          \* bool on_tracking_
  use_head_scan_,        \* bool use_head_scan_
  tracking_status_,      \* int tracking_status_ (recorded TrackState)
  count_not_found_,      \* int count_not_found_
  current_ball_pan_,     \* double current_ball_pan_
  current_ball_tilt_,    \* double current_ball_tilt_
  current_ball_bottom_,  \* double current_ball_bottom_
  ball_position_,        \* geometry_msgs::Point ball_position_
  prev_time_,            \* ros::Time prev_time_
  \* observation of the last operation
  op,                    \* name of the last operation
  ret,                   \* value returned by the last processTracking
  out,                   \* messages published by the last operation
  pd,                    \* PD terms computed by the last processTracking
  \* history
  sinceFound,            \* active no-detection ticks since the last Found tick
  foundAge,              \* ticks of any mode since the last Found tick
  missRun,               \* consecutive active no-detection ticks since a scan
  lastMiss,              \* the last tick was an active no-detection tick
  best,                  \* first largest circle reported since the last tick
  \* processTracking() and ballPositionCallback() running concurrently
  pc,                    \* position of the thread inside processTracking()
  loc_tracking_status,   \* local tracking_status of processTracking()
  loc_x_error,           \* local x_error of processTracking()
  loc_y_error,           \* local y_error of processTracking()
  loc_ball_size,         \* local ball_size of processTracking()
  cb_pc,                 \* position of the thread inside ballPositionCallback()
  msg_circles,           \* msg->circles[idx..] still to be visited
  seenX,                 \* ball_position_ when processTracking() read its x
  seenY,                 \* ball_position_ when processTracking() read its y
  seenZ,                 \* ball_position_ when processTracking() read its z
  wiped                  \* ball_position_ when processTracking() cleared its z

vars == <<on_tracking_, use_head_scan_, tracking_status_, count_not_found_,
          current_ball_pan_, current_ball_tilt_, current_ball_bottom_,
          ball_position_, prev_time_, op, ret, out, pd,
          sinceFound, foundAge, missRun, lastMiss, best,
          pc, loc_tracking_status, loc_x_error, loc_y_error, loc_ball_size,
          cb_pc, msg_circles,
          seenX, seenY, seenZ, wiped>>

histVars == <<sinceFound, foundAge, missRun, lastMiss, best>>

threadVars == <<pc, loc_tracking_status, loc_x_error, loc_y_error,
                loc_ball_size, cb_pc, msg_circles, seenX, seenY, seenZ, wiped>>

progVars == <<on_tracking_, use_head_scan_, tracking_status_, count_not_found_,
              current_ball_pan_, current_ball_tilt_, current_ball_bottom_,
              ball_position_, prev_time_>>

----------------------------------------------------------------------------
(* Bounds of the model *)

MaxTime == 1       \* clock readings are 0..MaxTime
MaxCircles == 1    \* circles in one circle_set message

----------------------------------------------------------------------------
(* Program constants *)

NOT_FOUND_THRESHOLD == 50
WAITING_THRESHOLD == 5
min_angle == 10    \* 1 degree, in tenths of a degree

NotFound == "NotFound"
Waiting == "Waiting"
Found == "Found"
TrackingStatus == {NotFound, Waiting, Found}

----------------------------------------------------------------------------
(* Arithmetic *)

Abs(n) == IF n < 0 THEN -n ELSE n

Sign(n) == IF n < 0 THEN -1 ELSE IF n > 0 THEN 1 ELSE 0

\* quotient rounded toward zero, b # 0
TruncDiv(a, b) == Sign(a) * Sign(b) * (Abs(a) \div Abs(b))

Fin(n) == [k |-> "fin", v |-> n]
Inf(s) == [k |-> "inf", v |-> s]
NaN == [k |-> "nan", v |-> 0]

\* fabs(d) < bound, false for NaN and for the infinities
FabsLess(d, bound) == d.k = "fin" /\ Abs(d.v) < bound

\* fabs(d) >= bound, false for NaN
FabsGeq(d, bound) == d.k = "inf" \/ (d.k = "fin" /\ Abs(d.v) >= bound)

\* -atan(x * tan(FOV_WIDTH)), FOV_WIDTH = 26.4 deg; x in hundredths
PanError(x) ==
  CASE x = -10 -> 28
    [] x = -2 -> 6
    [] x = 0 -> 0
    [] x = 2 -> -6
    [] x = 10 -> -28
    [] x = 50 -> -139

\* -atan(y * tan(FOV_HEIGHT)), FOV_HEIGHT = 21.6 deg; y in hundredths
TiltError(y) ==
  CASE y = -10 -> 23
    [] y = -2 -> 5
    [] y = 0 -> 0
    [] y = 2 -> -5
    [] y = 10 -> -23
    [] y = 50 -> -112

\* current * 0.7
Decay_Half(v) == TruncDiv(v * 5, 10)

Decay(v) == TruncDiv(v * 7, 10)

\* (error - current) / delta_time, per second; dt in periods of 0.04 s
ErrorDiff(error, current, dt) ==
  IF dt = 0
    THEN IF error - current = 0 THEN NaN ELSE Inf(Sign(error - current))
    ELSE Fin(TruncDiv(25 * (error - current), dt))

\* error * p_gain + error_diff * d_gain, p_gain = 0.75, d_gain = 0.04
ErrorTarget(error, error_diff) ==
  IF error_diff.k = "fin"
    THEN Fin(TruncDiv(error * 3, 4) + TruncDiv(error_diff.v, 25))
    ELSE error_diff

----------------------------------------------------------------------------
(* Messages *)

Circles ==
  { [x |-> 10, y |-> 0, z |-> 10],
    [x |-> -10, y |-> 10, z |-> 5],
    [x |-> 2, y |-> -2, z |-> 5],
    [x |-> -2, y |-> 50, z |-> 0] }

CircleSets == UNION { [1..n -> Circles] : n \in 0..MaxCircles }

CommandStrings == {"start", "stop", "toggle_start", "other"}

AngleOffset(pan, tilt) == [type |-> "AngleOffset", pan |-> pan, tilt |-> tilt]
ScanRequest == [type |-> "ScanRequest"]

\* no circle
NoCircle == [x |-> 0, y |-> 0, z |-> -2]

\* history: among the circles of positive size reported so far, the first one
\* of the largest size (NoCircle when there is none)
RECURSIVE FirstLargest(_, _)
FirstLargest(b, circles) ==
  IF circles = <<>> THEN b
  ELSE FirstLargest(IF Head(circles).z > 0 /\ Head(circles).z > b.z
                      THEN Head(circles) ELSE b,
                    Tail(circles))

----------------------------------------------------------------------------
(* Operations *)

\* the loop of ballPositionCallback over msg->circles
RECURSIVE Aggregate_LastWins(_, _)
Aggregate_LastWins(held, circles) ==
  IF circles = <<>> THEN held
  ELSE IF held.z > Head(circles).z
         THEN Aggregate_LastWins(held, Tail(circles))
         ELSE Aggregate_LastWins(Head(circles), Tail(circles))

RECURSIVE Aggregate(_, _)
Aggregate(held, circles) ==
  IF circles = <<>> THEN held
  ELSE IF held.z >= Head(circles).z
         THEN Aggregate(held, Tail(circles))
         ELSE Aggregate(Head(circles), Tail(circles))

\* messages published by publishHeadJoint(pan, tilt); pan, tilt are doubles
publishHeadJoint(pan, tilt) ==
  IF FabsLess(pan, min_angle) /\ FabsLess(tilt, min_angle)
    THEN <<>>
    ELSE <<AngleOffset(pan, tilt)>>

\* messages published by scanBall()
scanBall_Never == <<>>

scanBall_Always == <<ScanRequest>>

scanBall ==
  IF use_head_scan_ = FALSE THEN <<>> ELSE <<ScanRequest>>

\* no PD step was taken
NoPd == [dt |-> 0, x_error_diff |-> Fin(0), y_error_diff |-> Fin(0),
         x_error_target |-> Fin(0), y_error_target |-> Fin(0), taken |-> FALSE]

Init ==
  /\ on_tracking_ = FALSE
  /\ use_head_scan_ = TRUE
  /\ tracking_status_ = NotFound
  /\ count_not_found_ = 0
  /\ current_ball_pan_ = 0
  /\ current_ball_tilt_ = 0
  /\ current_ball_bottom_ = 0
  /\ ball_position_ = [x |-> 0, y |-> 0, z |-> 0]
  /\ prev_time_ = 0
  /\ op = "init"
  /\ ret = "none"
  /\ out = <<>>
  /\ pd = NoPd
  /\ sinceFound = -1
  /\ foundAge = -1
  /\ missRun = 0
  /\ lastMiss = FALSE
  /\ best = NoCircle
  /\ pc = "idle"
  /\ loc_tracking_status = Found
  /\ loc_x_error = 0
  /\ loc_y_error = 0
  /\ loc_ball_size = 0
  /\ cb_pc = "idle"
  /\ msg_circles = <<>>
  /\ seenX = NoCircle
  /\ seenY = NoCircle
  /\ seenZ = NoCircle
  /\ wiped = NoCircle

Observe(name, r, o, p) ==
  /\ op' = name
  /\ ret' = r
  /\ out' = o
  /\ pd' = p

\* ballPositionCallback(msg), circles being msg->circles
circlesDetected(circles) ==
  /\ ball_position_' = Aggregate(ball_position_, circles)
  /\ best' = FirstLargest(best, circles)
  /\ Observe("other", "none", <<>>, NoPd)
  /\ UNCHANGED <<on_tracking_, use_head_scan_, tracking_status_,
                 count_not_found_, current_ball_pan_, current_ball_tilt_,
                 current_ball_bottom_, prev_time_,
                 sinceFound, foundAge, missRun, lastMiss, threadVars>>

ballPositionCallback == \E msg \in CircleSets : circlesDetected(msg)

startTracking_ResetsStreak ==
  /\ on_tracking_' = TRUE
  /\ count_not_found_' = 0
  /\ Observe("start", "none", <<>>, NoPd)
  /\ UNCHANGED <<use_head_scan_, tracking_status_,
                 current_ball_pan_, current_ball_tilt_, current_ball_bottom_,
                 ball_position_, prev_time_,
                 sinceFound, foundAge, missRun, lastMiss, best, threadVars>>

startTracking ==
  /\ on_tracking_' = TRUE
  /\ Observe("start", "none", <<>>, NoPd)
  /\ UNCHANGED <<use_head_scan_, tracking_status_, count_not_found_,
                 current_ball_pan_, current_ball_tilt_, current_ball_bottom_,
                 ball_position_, prev_time_,
                 sinceFound, foundAge, missRun, lastMiss, best, threadVars>>

\* <<x_error, y_error>> of stopTracking()
StopErrors_FromMemory == <<current_ball_pan_, current_ball_tilt_>>

StopErrors == <<PanError(ball_position_.x), TiltError(ball_position_.y)>>

stopTracking ==
  /\ on_tracking_' = FALSE
  /\ Observe("stop", "none",
             publishHeadJoint(Fin(StopErrors[1]), Fin(StopErrors[2])), NoPd)
  /\ sinceFound' = -1
  /\ UNCHANGED <<use_head_scan_, tracking_status_, count_not_found_,
                 current_ball_pan_, current_ball_tilt_, current_ball_bottom_,
                 ball_position_, prev_time_,
                 foundAge, missRun, lastMiss, best, threadVars>>

ignoreCommand ==
  /\ Observe("other", "none", <<>>, NoPd)
  /\ UNCHANGED <<progVars, histVars, threadVars>>

ballTrackerCommandCallback ==
  \E data \in CommandStrings :
    IF data = "start" THEN startTracking
    ELSE IF data = "stop" THEN stopTracking
    ELSE IF data = "toggle_start"
      THEN IF on_tracking_ = FALSE THEN startTracking ELSE stopTracking
      ELSE ignoreCommand

setUsingHeadScan ==
  \E use_scan \in BOOLEAN :
    /\ use_head_scan_' = use_scan
    /\ Observe("other", "none", <<>>, NoPd)
    /\ UNCHANGED <<on_tracking_, tracking_status_, count_not_found_,
                   current_ball_pan_, current_ball_tilt_, current_ball_bottom_,
                   ball_position_, prev_time_,
                   sinceFound, foundAge, missRun, lastMiss, best, threadVars>>

\* tracking_status of a no-detection tick; c is the incremented streak
MissStatus_OffByOne(c, prev) ==
  IF c <= WAITING_THRESHOLD
    THEN IF prev = Found \/ prev = Waiting THEN Waiting ELSE NotFound
    ELSE NotFound

MissStatus(c, prev) ==
  IF c < WAITING_THRESHOLD
    THEN IF prev = Found \/ prev = Waiting THEN Waiting ELSE NotFound
    ELSE NotFound

\* the branch of a no-detection tick that calls scanBall()
ScanDue(c) == ~(c < WAITING_THRESHOLD) /\ c > NOT_FOUND_THRESHOLD

\* count_not_found_ after a no-detection tick; c is the incremented streak
CountAfterMiss_Stuck(c) == IF ScanDue(c) THEN 0 ELSE c - 1

CountAfterMiss(c) == IF ScanDue(c) THEN 0 ELSE c

\* x_error of a Waiting or Found tick
XError(status) ==
  IF status = Waiting THEN Decay(current_ball_pan_)
                      ELSE PanError(ball_position_.x)

\* y_error of a Waiting or Found tick
YError(status) ==
  IF status = Waiting THEN Decay(current_ball_tilt_)
                      ELSE TiltError(ball_position_.y)

\* ball_size of a Waiting or Found tick
BallSize_Cleared(status) ==
  IF status = Waiting THEN 0 ELSE ball_position_.z

BallSize(status) ==
  IF status = Waiting THEN current_ball_bottom_ ELSE ball_position_.z

\* ball_position_ after the end of a Found or Waiting tick
ConsumedCandidate_Kept == ball_position_

ConsumedCandidate == [ball_position_ EXCEPT !.z = 0]

\* case NotFound of the switch returns before the clock is read and the
\* memory written
ReturnNotFound_ResetsMemory ==
  /\ current_ball_pan_' = 0
  /\ current_ball_tilt_' = 0
  /\ current_ball_bottom_' = 0
  /\ UNCHANGED <<ball_position_, prev_time_>>

ReturnNotFound ==
  UNCHANGED <<current_ball_pan_, current_ball_tilt_, current_ball_bottom_,
              ball_position_, prev_time_>>

\* the value a Found or Waiting tick stores in current_ball_pan_ and
\* current_ball_tilt_, given the error and the filtered value of the axis
Remembered_Filtered(error, error_target) ==
  IF error_target.k = "fin" THEN error_target.v ELSE 0

Remembered(error, error_target) == error

Min(a, b) == IF a < b THEN a ELSE b

\* history: foundAge after a tick that resolves to status; -1 until the
\* first Found tick, WAITING_THRESHOLD stands for any larger number
AgeAfter(status) ==
  IF status = Found THEN 0
  ELSE IF foundAge = -1 THEN -1
  ELSE Min(foundAge + 1, WAITING_THRESHOLD)

\* processTracking() while on_tracking_ == false
InactiveTick_KeepsCandidate ==
  /\ on_tracking_ = FALSE
  /\ count_not_found_' = 0
  /\ Observe("tick", NotFound, <<>>, NoPd)
  /\ sinceFound' = -1
  /\ foundAge' = AgeAfter(NotFound)
  /\ missRun' = 0
  /\ lastMiss' = FALSE
  /\ best' = NoCircle
  /\ UNCHANGED <<on_tracking_, use_head_scan_, tracking_status_,
                 current_ball_pan_, current_ball_tilt_, current_ball_bottom_,
                 ball_position_, prev_time_, threadVars>>

InactiveTick ==
  /\ on_tracking_ = FALSE
  /\ ball_position_' = [ball_position_ EXCEPT !.z = 0]
  /\ count_not_found_' = 0
  /\ Observe("tick", NotFound, <<>>, NoPd)
  /\ sinceFound' = -1
  /\ foundAge' = AgeAfter(NotFound)
  /\ missRun' = 0
  /\ lastMiss' = FALSE
  /\ best' = NoCircle
  /\ UNCHANGED <<on_tracking_, use_head_scan_, tracking_status_,
                 current_ball_pan_, current_ball_tilt_, current_ball_bottom_,
                 prev_time_, threadVars>>

\* processTracking() while on_tracking_ == true; now is ros::Time::now()
ActiveTick(now) ==
  LET miss == ball_position_.z <= 0
      c == count_not_found_ + 1
      status == IF miss THEN MissStatus(c, tracking_status_) ELSE Found
      scan == IF miss /\ ScanDue(c) THEN scanBall ELSE <<>>
      x_error == XError(status)
      y_error == YError(status)
      delta_time == now - prev_time_
      x_error_diff == ErrorDiff(x_error, current_ball_pan_, delta_time)
      y_error_diff == ErrorDiff(y_error, current_ball_tilt_, delta_time)
      x_error_target == ErrorTarget(x_error, x_error_diff)
      y_error_target == ErrorTarget(y_error, y_error_diff)
  IN
  /\ on_tracking_ = TRUE
  /\ count_not_found_' = IF miss THEN CountAfterMiss(c) ELSE 0
  /\ tracking_status_' = status
  /\ IF status = NotFound
       THEN /\ Observe("tick", status, scan, NoPd)
            /\ ReturnNotFound
       ELSE /\ prev_time_' = now
            /\ Observe("tick", status,
                       scan \o publishHeadJoint(x_error_target, y_error_target),
                       [dt |-> delta_time,
                        x_error_diff |-> x_error_diff,
                        y_error_diff |-> y_error_diff,
                        x_error_target |-> x_error_target,
                        y_error_target |-> y_error_target,
                        taken |-> TRUE])
            /\ current_ball_pan_' = Remembered(x_error, x_error_target)
            /\ current_ball_tilt_' = Remembered(y_error, y_error_target)
            /\ current_ball_bottom_' = BallSize(status)
            /\ ball_position_' = ConsumedCandidate
  /\ sinceFound' = IF ~miss THEN 0
                   ELSE IF sinceFound = -1 \/ sinceFound >= WAITING_THRESHOLD
                     THEN -1
                     ELSE sinceFound + 1
  /\ foundAge' = AgeAfter(status)
  /\ missRun' = IF ~miss \/ scan # <<>> THEN 0
                ELSE Min(missRun + 1, NOT_FOUND_THRESHOLD + 1)
  /\ lastMiss' = miss
  /\ best' = NoCircle
  /\ UNCHANGED <<on_tracking_, use_head_scan_, threadVars>>

processTracking ==
  \/ InactiveTick
  \/ \E now \in 0..MaxTime : ActiveTick(now)

\* every operation runs to completion before the next one starts
Next ==
  \/ ballPositionCallback
  \/ ballTrackerCommandCallback
  \/ setUsingHeadScan
  \/ processTracking

Spec == Init /\ [][Next]_vars

\* the detector sees one ball, or reports a circle of size 0
LiveCircles ==
  { [x |-> 10, y |-> 0, z |-> 10],
    [x |-> -2, y |-> 50, z |-> 0] }

LiveCircleSets == UNION { [1..n -> LiveCircles] : n \in 0..MaxCircles }

ballPositionCallbackLive == \E msg \in LiveCircleSets : circlesDetected(msg)

NextLive ==
  \/ ballPositionCallbackLive
  \/ ballTrackerCommandCallback
  \/ setUsingHeadScan
  \/ processTracking

\* the owner of the tracker calls processTracking() once in every cycle of
\* its control loop, so ticks keep being executed
SpecLive == Init /\ [][NextLive]_vars /\ WF_vars(processTracking)

----------------------------------------------------------------------------
(* processTracking() in one thread, the subscriber callbacks in another;   *)
(* a step is one read or one write of ball_position_ together with the     *)
(* thread-local code around it.                                            *)

\* ballPositionCallback(msg) is entered
callbackEnter ==
  \E msg \in CircleSets :
    /\ cb_pc = "idle"
    /\ msg # <<>>
    /\ msg_circles' = msg
    /\ cb_pc' = "compare"
    /\ UNCHANGED <<progVars, op, ret, out, pd, histVars, pc,
                   loc_tracking_status, loc_x_error, loc_y_error,
                   loc_ball_size, seenX, seenY, seenZ, wiped>>

\* if (ball_position_.z >= msg->circles[idx].z) continue;
callbackCompare ==
  /\ cb_pc = "compare"
  /\ IF ball_position_.z >= Head(msg_circles).z
       THEN /\ msg_circles' = Tail(msg_circles)
            /\ cb_pc' = IF Tail(msg_circles) = <<>> THEN "idle" ELSE "compare"
       ELSE /\ cb_pc' = "store"
            /\ UNCHANGED msg_circles
  /\ UNCHANGED <<progVars, op, ret, out, pd, histVars, pc,
                 loc_tracking_status, loc_x_error, loc_y_error,
                 loc_ball_size, seenX, seenY, seenZ, wiped>>

\* ball_position_ = msg->circles[idx];
callbackStore ==
  /\ cb_pc = "store"
  /\ ball_position_' = Head(msg_circles)
  /\ msg_circles' = Tail(msg_circles)
  /\ cb_pc' = IF Tail(msg_circles) = <<>> THEN "idle" ELSE "compare"
  /\ UNCHANGED <<on_tracking_, use_head_scan_, tracking_status_,
                 count_not_found_, current_ball_pan_, current_ball_tilt_,
                 current_ball_bottom_, prev_time_,
                 op, ret, out, pd, histVars, pc, loc_tracking_status,
                 loc_x_error, loc_y_error, loc_ball_size,
                 seenX, seenY, seenZ, wiped>>

\* startTracking() between two circle_set messages
startBetweenMessages ==
  /\ cb_pc = "idle"
  /\ on_tracking_ = FALSE
  /\ on_tracking_' = TRUE
  /\ UNCHANGED <<use_head_scan_, tracking_status_, count_not_found_,
                 current_ball_pan_, current_ball_tilt_, current_ball_bottom_,
                 ball_position_, prev_time_,
                 op, ret, out, pd, histVars, threadVars>>

\* processTracking() up to the switch: the mode test, the size test, the
\* streak and the NotFound and Waiting cases
trackingEnter ==
  /\ pc = "idle"
  /\ seenX' = NoCircle
  /\ seenY' = NoCircle
  /\ seenZ' = NoCircle
  /\ wiped' = NoCircle
  /\ IF on_tracking_ = FALSE
       THEN /\ ball_position_' = [ball_position_ EXCEPT !.z = 0]
            /\ count_not_found_' = 0
            /\ Observe("tick", NotFound, <<>>, NoPd)
            /\ UNCHANGED <<tracking_status_, pc, loc_tracking_status,
                           loc_x_error, loc_y_error, loc_ball_size>>
       ELSE LET miss == ball_position_.z <= 0
                c == count_not_found_ + 1
                status == IF miss THEN MissStatus(c, tracking_status_)
                                  ELSE Found
                scan == IF miss /\ ScanDue(c) THEN scanBall ELSE <<>>
            IN
            /\ count_not_found_' = IF miss THEN CountAfterMiss(c) ELSE 0
            /\ loc_tracking_status' = status
            /\ UNCHANGED ball_position_
            /\ IF status = NotFound
                 THEN /\ tracking_status_' = status
                      /\ Observe("tick", status, scan, NoPd)
                      /\ UNCHANGED <<pc, loc_x_error, loc_y_error,
                                     loc_ball_size>>
                 ELSE IF status = Waiting
                   THEN /\ loc_x_error' = XError(status)
                        /\ loc_y_error' = YError(status)
                        /\ loc_ball_size' = BallSize(status)
                        /\ pc' = "filter"
                        /\ UNCHANGED <<tracking_status_, op, ret, out, pd>>
                   ELSE /\ pc' = "read_x"
                        /\ UNCHANGED <<tracking_status_, op, ret, out, pd,
                                       loc_x_error, loc_y_error, loc_ball_size>>
  /\ UNCHANGED <<on_tracking_, use_head_scan_, current_ball_pan_,
                 current_ball_tilt_, current_ball_bottom_, prev_time_,
                 histVars, cb_pc, msg_circles>>

\* x_error = -atan(ball_position_.x * tan(FOV_WIDTH));
trackingReadX ==
  /\ pc = "read_x"
  /\ loc_x_error' = PanError(ball_position_.x)
  /\ seenX' = ball_position_
  /\ pc' = "read_y"
  /\ UNCHANGED <<progVars, op, ret, out, pd, histVars, loc_tracking_status,
                 loc_y_error, loc_ball_size, cb_pc, msg_circles,
                 seenY, seenZ, wiped>>

\* y_error = -atan(ball_position_.y * tan(FOV_HEIGHT));
trackingReadY ==
  /\ pc = "read_y"
  /\ loc_y_error' = TiltError(ball_position_.y)
  /\ seenY' = ball_position_
  /\ pc' = "read_z"
  /\ UNCHANGED <<progVars, op, ret, out, pd, histVars, loc_tracking_status,
                 loc_x_error, loc_ball_size, cb_pc, msg_circles,
                 seenX, seenZ, wiped>>

\* ball_size = ball_position_.z;
trackingReadZ ==
  /\ pc = "read_z"
  /\ loc_ball_size' = ball_position_.z
  /\ seenZ' = ball_position_
  /\ pc' = "filter"
  /\ UNCHANGED <<progVars, op, ret, out, pd, histVars, loc_tracking_status,
                 loc_x_error, loc_y_error, cb_pc, msg_circles,
                 seenX, seenY, wiped>>

\* the PD filter, publishHeadJoint() and the update of current_ball_*
trackingFilter ==
  \E now \in 0..MaxTime :
    LET delta_time == now - prev_time_
        x_error_diff == ErrorDiff(loc_x_error, current_ball_pan_, delta_time)
        y_error_diff == ErrorDiff(loc_y_error, current_ball_tilt_, delta_time)
        x_error_target == ErrorTarget(loc_x_error, x_error_diff)
        y_error_target == ErrorTarget(loc_y_error, y_error_diff)
    IN
    /\ pc = "filter"
    /\ prev_time_' = now
    /\ out' = publishHeadJoint(x_error_target, y_error_target)
    /\ pd' = [dt |-> delta_time,
              x_error_diff |-> x_error_diff,
              y_error_diff |-> y_error_diff,
              x_error_target |-> x_error_target,
              y_error_target |-> y_error_target,
              taken |-> TRUE]
    /\ current_ball_pan_' = loc_x_error
    /\ current_ball_tilt_' = loc_y_error
    /\ current_ball_bottom_' = loc_ball_size
    /\ pc' = "clear"
    /\ UNCHANGED <<on_tracking_, use_head_scan_, tracking_status_,
                   count_not_found_, ball_position_, op, ret, histVars,
                   loc_tracking_status, loc_x_error, loc_y_error, loc_ball_size,
                   cb_pc, msg_circles, seenX, seenY, seenZ, wiped>>

\* ball_position_.z = 0; tracking_status_ = tracking_status; return
trackingClear ==
  /\ pc = "clear"
  /\ wiped' = ball_position_
  /\ ball_position_' = [ball_position_ EXCEPT !.z = 0]
  /\ tracking_status_' = loc_tracking_status
  /\ op' = "tick"
  /\ ret' = loc_tracking_status
  /\ pc' = "idle"
  /\ UNCHANGED <<on_tracking_, use_head_scan_, count_not_found_,
                 current_ball_pan_, current_ball_tilt_, current_ball_bottom_,
                 prev_time_, out, pd, histVars, loc_tracking_status,
                 loc_x_error, loc_y_error, loc_ball_size, cb_pc, msg_circles,
                 seenX, seenY, seenZ>>

NextThreads ==
  \/ callbackEnter
  \/ callbackCompare
  \/ callbackStore
  \/ startBetweenMessages
  \/ trackingEnter
  \/ trackingReadX
  \/ trackingReadY
  \/ trackingReadZ
  \/ trackingFilter
  \/ trackingClear

SpecThreads == Init /\ [][NextThreads]_vars

----------------------------------------------------------------------------
(* Properties *)

NumOf(type, msgs) == Cardinality({i \in 1..Len(msgs) : msgs[i].type = type})

\* C1: whenever tracking is Inactive and a tick has run since it became
\* Inactive, the recorded TrackState tracking_status_ is NotFound.
C1_InactiveForcesNotFound ==
  (on_tracking_ = FALSE /\ op = "tick") => tracking_status_ = NotFound

\* C2: whenever tracking is Inactive, the remembered pan error, tilt error and
\* scale are all at their reset value 0.
C2_MemoryResetWhenInactive ==
  on_tracking_ = FALSE =>
    /\ current_ball_pan_ = 0
    /\ current_ball_tilt_ = 0
    /\ current_ball_bottom_ = 0

\* C3: a tick executed while tracking is Inactive returns NotFound, publishes
\* nothing, resets the streak to 0 and clears the held size to 0; a tick
\* executed while Active processes the held candidate: it resolves to Found,
\* remembering the candidate's mapped errors and size, exactly when the held
\* size is positive.
C3_ModeTakesEffectNextTick ==
  [][op' = "tick" =>
       IF on_tracking_ = FALSE
         THEN /\ ret' = NotFound
              /\ out' = <<>>
              /\ count_not_found_' = 0
              /\ ball_position_'.z = 0
         ELSE /\ ball_position_.z > 0 =>
                   /\ ret' = Found
                   /\ current_ball_pan_' = PanError(ball_position_.x)
                   /\ current_ball_tilt_' = TiltError(ball_position_.y)
                   /\ current_ball_bottom_' = ball_position_.z
              /\ ball_position_.z <= 0 => ret' # Found]_vars

C3_Witness ==
  /\ op = "tick"
  /\ on_tracking_ = FALSE
  /\ tracking_status_ = Found
  /\ ball_position_.x = 10

\* C4 as stated: of two consecutive active no-detection ticks the second
\* leaves a strictly greater streak than the first, and a tick with a valid
\* detection leaves the streak at 0.
C4_StreakAlwaysIncreases ==
  [][op' = "tick" =>
       /\ (lastMiss /\ lastMiss') => count_not_found_' > count_not_found_
       /\ ball_position_.z > 0 => count_not_found_' = 0]_vars

\* C4 amended: of two consecutive active no-detection ticks the second leaves
\* a strictly greater streak than the first, unless its incremented streak
\* exceeds NOT_FOUND_THRESHOLD, in which case it leaves the streak at 0; a
\* tick with a valid detection leaves the streak at 0.
C4_StreakIncreasesUntilThreshold ==
  [][op' = "tick" =>
       /\ (lastMiss /\ lastMiss') =>
            IF count_not_found_ + 1 > NOT_FOUND_THRESHOLD
              THEN count_not_found_' = 0
              ELSE count_not_found_' > count_not_found_
       /\ ball_position_.z > 0 => count_not_found_' = 0]_vars

C4_Witness ==
  /\ op = "tick"
  /\ lastMiss
  /\ count_not_found_ = 0
  /\ missRun = 0

\* C5: with tracking Active throughout, the k-th consecutive no-detection
\* tick after a Found tick resolves to Waiting for k in 1..WAITING_THRESHOLD-1
\* and to NotFound for k = WAITING_THRESHOLD.
C5_WaitingThenNotFound ==
  op = "tick" =>
    /\ sinceFound \in 1..(WAITING_THRESHOLD - 1) => ret = Waiting
    /\ sinceFound = WAITING_THRESHOLD => ret = NotFound

C5_Witness ==
  /\ op = "tick"
  /\ sinceFound = WAITING_THRESHOLD
  /\ ret = NotFound
  /\ count_not_found_ = WAITING_THRESHOLD

\* C6: a tick publishes a ScanRequest exactly when use_head_scan_ is set and
\* it is an active no-detection tick whose incremented streak exceeds
\* NOT_FOUND_THRESHOLD; it publishes at most one, and only as at least the
\* (NOT_FOUND_THRESHOLD+1)-th consecutive active no-detection tick since the
\* previous ScanRequest; whether or not use_head_scan_ is set, that tick
\* resets the streak to 0 and resolves to NotFound.  No other operation
\* publishes a ScanRequest.
C6_ScanOnThresholdCrossing ==
  [][LET crossing == /\ on_tracking_
                     /\ ball_position_.z <= 0
                     /\ count_not_found_ + 1 > NOT_FOUND_THRESHOLD
         scans == NumOf("ScanRequest", out')
     IN IF op' = "tick"
          THEN /\ scans >= 1 <=> (use_head_scan_ /\ crossing)
               /\ scans <= 1
               /\ scans >= 1 => missRun >= NOT_FOUND_THRESHOLD
               /\ crossing => count_not_found_' = 0 /\ ret' = NotFound
          ELSE scans = 0]_vars

C6_Witness ==
  /\ op = "tick"
  /\ out = <<ScanRequest>>
  /\ count_not_found_ = 0
  /\ ret = NotFound

\* C7: a Found or Waiting tick publishes an AngleOffset if and only if at
\* least one of the two PD-filtered values has magnitude >= min_angle, and
\* never more than one.
C7_Deadband ==
  (op = "tick" /\ (ret = Found \/ ret = Waiting)) =>
    /\ NumOf("AngleOffset", out) >= 1 <=>
         \/ FabsGeq(pd.x_error_target, min_angle)
         \/ FabsGeq(pd.y_error_target, min_angle)
    /\ NumOf("AngleOffset", out) <= 1

\* C8 as stated: every stop leaves tracking Inactive and publishes exactly one
\* AngleOffset, the field-of-view mapping of the held x and y.
C8_StopAlwaysPublishes ==
  op = "stop" =>
    /\ on_tracking_ = FALSE
    /\ out = <<AngleOffset(Fin(PanError(ball_position_.x)),
                           Fin(TiltError(ball_position_.y)))>>

\* C8 amended: every stop leaves tracking Inactive and publishes at most one
\* AngleOffset: exactly one, the field-of-view mapping of the held x and y,
\* when that mapping has magnitude >= min_angle on at least one axis, and
\* nothing when it is below min_angle on both axes.
C8_StopPublishesOutsideDeadband ==
  op = "stop" =>
    /\ on_tracking_ = FALSE
    /\ out = IF \/ Abs(PanError(ball_position_.x)) >= min_angle
                \/ Abs(TiltError(ball_position_.y)) >= min_angle
               THEN <<AngleOffset(Fin(PanError(ball_position_.x)),
                                  Fin(TiltError(ball_position_.y)))>>
               ELSE <<>>

C8_Witness ==
  /\ op = "stop"
  /\ out # <<>>
  /\ current_ball_pan_ # PanError(ball_position_.x)
  /\ current_ball_pan_ # 0

\* C9: when circles of positive size were reported since the last tick, the
\* held candidate is the first of them, in arrival order, that has the largest
\* size; when none was, the reports leave the held candidate alone; a report
\* only ever stores a circle of positive size and the held size is never
\* negative.
C9_FirstLargestHeld ==
  [][/\ best' # NoCircle => ball_position_' = best'
     /\ ball_position_'.z >= 0
     /\ (op' # "tick" /\ ball_position_' # ball_position_) =>
          ball_position_'.z > 0
     /\ (op' # "tick" /\ best' = NoCircle) => ball_position_' = ball_position_
    ]_vars

C9_Witness ==
  /\ op = "other"
  /\ best = [x |-> 2, y |-> -2, z |-> 5]
  /\ ball_position_ = best
  /\ tracking_status_ = Found

\* C10: with ballPositionCallback() interleaved with processTracking(), a
\* completed Found or Waiting tick wipes no circle of positive size other
\* than the one it used, and the x, y and size used by a Found tick were
\* read from the same stored circle.
C10_ReadThenClearIsAtomic ==
  (pc = "idle" /\ op = "tick" /\ wiped # NoCircle) =>
    /\ wiped.z > 0 => (ret = Found /\ wiped = seenZ)
    /\ ret = Found => (seenX = seenY /\ seenY = seenZ)

\* C11: on a Found or Waiting tick whose elapsed time delta_time is zero or
\* negative, the derivative term is zero on both axes and each filtered value
\* is p_gain times the error of that axis (the error the tick remembers).
C11_NonPositiveDtSkipsDerivative ==
  (op = "tick" /\ pd.taken /\ pd.dt <= 0) =>
    /\ pd.x_error_diff = Fin(0)
    /\ pd.y_error_diff = Fin(0)
    /\ pd.x_error_target = Fin(TruncDiv(current_ball_pan_ * 3, 4))
    /\ pd.y_error_target = Fin(TruncDiv(current_ball_tilt_ * 3, 4))

\* C12: start publishes nothing and changes nothing but the mode, which it
\* leaves Active; issued while tracking is already Active (as the second of
\* two starts in a row is) it leaves the mode, the recorded TrackState, the
\* streak, the ControllerMemory, the held candidate and every other field as
\* they were, so two starts in a row yield the state and outputs of one.
C12_StartIdempotent ==
  [][op' = "start" =>
       /\ on_tracking_' = TRUE
       /\ out' = <<>>
       /\ <<use_head_scan_, tracking_status_, count_not_found_,
            current_ball_pan_, current_ball_tilt_, current_ball_bottom_,
            ball_position_, prev_time_>>'
          = <<use_head_scan_, tracking_status_, count_not_found_,
              current_ball_pan_, current_ball_tilt_, current_ball_bottom_,
              ball_position_, prev_time_>>
       /\ on_tracking_ = TRUE => progVars' = progVars]_vars

C12_Witness ==
  /\ op = "start"
  /\ on_tracking_ = TRUE
  /\ sinceFound >= 1
  /\ count_not_found_ >= 1
  /\ tracking_status_ = Waiting
  /\ current_ball_pan_ # 0

\* C13: every tick that resolves to Waiting is at most WAITING_THRESHOLD-1
\* ticks (of any mode) after the most recent tick that resolved to Found.
C13_WaitingOnlyRecentlyFound ==
  (op = "tick" /\ ret = Waiting) => foundAge \in 1..(WAITING_THRESHOLD - 1)

\* C14 as stated: on a Waiting tick that immediately follows another Waiting
\* tick, the remembered scale current_ball_bottom_ the tick takes from the
\* ControllerMemory is 0.
C14_WaitingAfterWaitingScaleZero ==
  [][(op = "tick" /\ ret = Waiting /\ op' = "tick" /\ ret' = Waiting) =>
       current_ball_bottom_ = 0]_vars

\* C14 amended: on every Waiting tick, whether it follows a Found tick or
\* another Waiting tick, the remembered scale current_ball_bottom_ is
\* positive and the tick leaves it unchanged; what the tick leaves at 0 is
\* the size of the held candidate.  Only a Found tick changes the remembered
\* scale.
C14_WaitingKeepsScale ==
  [][/\ (op' = "tick" /\ ret' = Waiting) =>
          /\ current_ball_bottom_ > 0
          /\ current_ball_bottom_' = current_ball_bottom_
          /\ ball_position_'.z = 0
     /\ current_ball_bottom_' # current_ball_bottom_ =>
          (op' = "tick" /\ ret' = Found)]_vars

C14_Witness ==
  /\ op = "tick"
  /\ ret = Waiting
  /\ sinceFound = 2
  /\ current_ball_bottom_ = 10
  /\ ball_position_.z = 0

\* C15: after every tick, in any mode and any resolved state, the size of
\* the held candidate is 0; a tick resolves to Found only while tracking is
\* Active and a circle of positive size was reported since the previous
\* tick, so no report is consumed by two ticks.
C15_DetectionConsumedOnce ==
  [][op' = "tick" =>
       /\ ball_position_'.z = 0
       /\ ret' = Found => (on_tracking_ = TRUE /\ best # NoCircle)
       /\ best = NoCircle => ret' # Found]_vars

C15_Witness ==
  /\ op = "tick"
  /\ ret = Waiting
  /\ sinceFound = 1
  /\ ball_position_ = [x |-> 10, y |-> 0, z |-> 0]
  /\ current_ball_bottom_ = 10

\* C16: an Active tick resolves to NotFound exactly when there is no valid
\* detection and either the recorded state is NotFound or the incremented
\* streak is at least WAITING_THRESHOLD; such a tick records NotFound,
\* publishes no AngleOffset and leaves the remembered pan, tilt and scale and
\* the previous-tick timestamp unchanged.
C16_NotFoundTickFrame ==
  [][(op' = "tick" /\ on_tracking_ = TRUE) =>
       /\ ret' = NotFound <=>
            /\ ball_position_.z <= 0
            /\ \/ tracking_status_ = NotFound
               \/ count_not_found_ + 1 >= WAITING_THRESHOLD
       /\ ret' = NotFound =>
            /\ tracking_status_' = NotFound
            /\ NumOf("AngleOffset", out') = 0
            /\ current_ball_pan_' = current_ball_pan_
            /\ current_ball_tilt_' = current_ball_tilt_
            /\ current_ball_bottom_' = current_ball_bottom_
            /\ prev_time_' = prev_time_]_vars

C16_Witness ==
  /\ op = "tick"
  /\ on_tracking_ = TRUE
  /\ ret = NotFound
  /\ tracking_status_ = NotFound
  /\ count_not_found_ = WAITING_THRESHOLD
  /\ current_ball_pan_ = -6
  /\ current_ball_bottom_ = 10
  /\ prev_time_ = 1

\* C17: after every Found tick, whatever the elapsed time, the previous
\* memory and the outcome of the deadband, the remembered pan and tilt are
\* the field-of-view-mapped errors of the consumed candidate and the
\* remembered scale is its size; the filtered values of the tick are
\* computed from these remembered errors and are not what is stored.
C17_FoundStoresRawError ==
  [][(op' = "tick" /\ ret' = Found) =>
       /\ current_ball_pan_' = PanError(ball_position_.x)
       /\ current_ball_tilt_' = TiltError(ball_position_.y)
       /\ current_ball_bottom_' = ball_position_.z
       /\ pd'.taken
       /\ pd'.x_error_target =
            ErrorTarget(current_ball_pan_', pd'.x_error_diff)
       /\ pd'.y_error_target =
            ErrorTarget(current_ball_tilt_', pd'.y_error_diff)]_vars

C17_Witness ==
  /\ op = "tick"
  /\ ret = Found
  /\ out = <<>>
  /\ current_ball_pan_ = -6
  /\ current_ball_bottom_ = 5
  /\ pd.dt = 1
  /\ pd.x_error_target = Fin(-4)

\* e decayed k times, as k consecutive Waiting ticks compute it
RECURSIVE DecayK(_, _)
DecayK(e, k) == IF k = 0 THEN e ELSE Decay(DecayK(e, k - 1))

RECURSIVE Pow(_, _)
Pow(b, k) == IF k = 0 THEN 1 ELSE b * Pow(b, k - 1)

\* a is 0.7^k * e, to within the rounding of k fixed-point multiplications
IsDecayed(a, e, k) ==
  /\ a = DecayK(e, k)
  /\ Abs(Pow(10, k) * a - Pow(7, k) * e) < 3 * Pow(10, k)
  /\ Sign(a) = Sign(e) \/ a = 0
  /\ Abs(a) <= Abs(e)

\* what a Waiting tick does on one axis: current is the remembered error
\* before the tick, next the one after it, diff and target the PD terms
WaitingAxis(current, next, diff, target, dt) ==
  /\ Abs(10 * next - 7 * current) < 10
  /\ Sign(next) = Sign(current) \/ next = 0
  /\ Abs(next) <= Abs(current)
  /\ Abs(10 * (next - current) + 3 * current) < 10
  /\ diff = ErrorDiff(next, current, dt)
  /\ target = ErrorTarget(next, diff)

\* C18: on each Waiting tick the error of each axis is 0.7 times the
\* remembered error (to one unit of the fixed-point scale) and becomes the
\* new remembered error, and the derivative input, error minus remembered
\* error, is -0.3 times the remembered error; after the k-th consecutive
\* Waiting tick following a Found tick with raw error e the remembered error
\* is 0.7^k * e, of the sign of e (or 0) and of no greater magnitude.
C18_WaitingDecay ==
  [][(op' = "tick" /\ ret' = Waiting) =>
       /\ pd'.taken
       /\ WaitingAxis(current_ball_pan_, current_ball_pan_',
                      pd'.x_error_diff, pd'.x_error_target, pd'.dt)
       /\ WaitingAxis(current_ball_tilt_, current_ball_tilt_',
                      pd'.y_error_diff, pd'.y_error_target, pd'.dt)
       /\ sinceFound' \in 1..(WAITING_THRESHOLD - 1) =>
            /\ IsDecayed(current_ball_pan_',
                         PanError(ball_position_'.x), sinceFound')
            /\ IsDecayed(current_ball_tilt_',
                         TiltError(ball_position_'.y), sinceFound')]_vars

C18_Witness ==
  /\ op = "tick"
  /\ ret = Waiting
  /\ sinceFound = WAITING_THRESHOLD - 1
  /\ current_ball_pan_ = 6
  /\ current_ball_tilt_ = -4
  /\ ball_position_ = [x |-> -10, y |-> 10, z |-> 0]

\* from some point on tracking stays Active, use_head_scan_ stays set and no
\* circle of positive size is reported
LostForGood ==
  <>[](on_tracking_ = TRUE /\ use_head_scan_ = TRUE /\ best = NoCircle)

\* C19: ticks keep being executed; if from some point on tracking stays
\* Active, use_head_scan_ stays set and no valid detection is reported, then
\* a ScanRequest is published infinitely often and from some point on every
\* tick resolves to NotFound and NotFound is the recorded state.  A tick with
\* tracking Active, use_head_scan_ set and no valid detection publishes the
\* ScanRequest exactly when the streak stands at NOT_FOUND_THRESHOLD and
\* otherwise adds one to the streak, so the requests are NOT_FOUND_THRESHOLD+1
\* ticks apart.
C19_SearchRepeatsWhileLost ==
  /\ [][(/\ op' = "tick"
         /\ on_tracking_ = TRUE
         /\ use_head_scan_ = TRUE
         /\ ball_position_.z <= 0) =>
          IF count_not_found_ = NOT_FOUND_THRESHOLD
            THEN out' = <<ScanRequest>> /\ count_not_found_' = 0
            ELSE /\ NumOf("ScanRequest", out') = 0
                 /\ count_not_found_' = count_not_found_ + 1]_vars
  /\ LostForGood =>
       /\ []<>(op = "tick" /\ out = <<ScanRequest>>)
       /\ <>[](/\ tracking_status_ = NotFound
               /\ op = "tick" => ret = NotFound)

C19_Witness ==
  /\ op = "tick"
  /\ out = <<ScanRequest>>
  /\ on_tracking_ = TRUE
  /\ use_head_scan_ = TRUE
  /\ best = NoCircle
  /\ tracking_status_ = NotFound
  /\ missRun = 0
  /\ foundAge = WAITING_THRESHOLD

\* -atan(x * tan(A)) for the half field-of-view angle A = 13.2 deg
HalfAnglePanError(x) ==
  CASE x = -10 -> 13
    [] x = -2 -> 3
    [] x = 0 -> 0
    [] x = 2 -> -3
    [] x = 10 -> -13
    [] x = 50 -> -67

\* -atan(y * tan(A)) for the half field-of-view angle A = 10.8 deg
HalfAngleTiltError(y) ==
  CASE y = -10 -> 11
    [] y = -2 -> 2
    [] y = 0 -> 0
    [] y = 2 -> -2
    [] y = 10 -> -11
    [] y = 50 -> -54

\* C20: the angular error of a Found tick, and of the final correction of
\* stop, is -atan(coordinate * tan(A)) with A the half field-of-view angle of
\* the axis, 13.2 degrees for pan and 10.8 degrees for tilt.
C20_HalfAngleMapping ==
  [][/\ (op' = "tick" /\ ret' = Found) =>
          /\ current_ball_pan_' = HalfAnglePanError(ball_position_.x)
          /\ current_ball_tilt_' = HalfAngleTiltError(ball_position_.y)
     /\ (op' = "stop" /\ out' # <<>>) =>
          /\ out'[1].pan = Fin(HalfAnglePanError(ball_position_.x))
          /\ out'[1].tilt = Fin(HalfAngleTiltError(ball_position_.y))]_vars

====
